---- MODULE Spec2Model ----
(***************************************************************************)
(* A model of src/app.py (VCF Converter Pro+): the number normaliser, the  *)
(* collection loops, the vCard encoder/decoders, the merge engine and the  *)
(* handlers of the tabs that call them.                                     *)
(*                                                                         *)
(* Text is modelled at character level: a Python str is a sequence of      *)
(* one-character strings, so that strip, splitlines, split(":"),           *)
(* startswith and replace are computed as Python computes them.            *)
(***************************************************************************)
EXTENDS Integers, Sequences, FiniteSets, TLC

VARIABLES tab, inp, res

vars == <<tab, inp, res>>

(***************************************************************************)
(* Bounds of the model.                                                    *)
(***************************************************************************)
MaxTokLen == 4

MaxTokens == 3

MaxBatch == 3

MaxSetStart == 2

MaxSegs == 5

MaxSplitLines == 5

MaxCleanLines == 3

MaxContactLines == 5

MaxBlocks == 3

(***************************************************************************)
(* Characters and the Python str methods the program uses.                 *)
(***************************************************************************)
\* Python's None, a value no str equals
NoneVal == <<"None">>

BOM == "<U+FEFF>"

LF == "\n"

CR == "\r"

Digits == {"0", "1", "2", "3", "4", "5", "6", "7", "8", "9"}

Whitespace == {" ", "\t", LF, CR}

IsDigit(c) == c \in Digits

IsSpace(c) == c \in Whitespace

SeqsUpTo(S, n) == UNION {[1..k -> S] : k \in 0..n}

RECURSIVE LStrip(_)
LStrip(s) ==
  IF s # <<>> /\ IsSpace(Head(s)) THEN LStrip(Tail(s)) ELSE s

RECURSIVE RStrip(_)
RStrip(s) ==
  IF s # <<>> /\ IsSpace(s[Len(s)]) THEN RStrip(SubSeq(s, 1, Len(s) - 1)) ELSE s

\* str.strip()
Strip(s) == RStrip(LStrip(s))

\* str.startswith(p)
StartsWith(s, p) == Len(s) >= Len(p) /\ SubSeq(s, 1, Len(p)) = p

RECURSIVE Filter(_, _)
Filter(s, keep) ==
  IF s = <<>> THEN <<>>
  ELSE IF Head(s) \in keep THEN <<Head(s)>> \o Filter(Tail(s), keep)
  ELSE Filter(Tail(s), keep)

\* re.sub(r"\D", "", raw)
DigitsOnly(s) == Filter(s, Digits)

\* str.lower() on the letters the model's tokens use
Lower(c) ==
  CASE c = "N" -> "n" [] c = "A" -> "a" [] c = "O" -> "o" [] c = "E" -> "e"
    [] OTHER -> c

LowerStr(s) == [i \in 1..Len(s) |-> Lower(s[i])]

\* str.replace(c, "") for a one-character c
RemoveChar(s, c) == Filter(s, {s[i] : i \in 1..Len(s)} \ {c})

\* str.splitlines(): "\n", "\r" and "\r\n" each end a line, and a text
\* that ends with a line break has no empty last line
RECURSIVE SplitLines(_)
SplitLines(s) ==
  LET breaks == {i \in 1..Len(s) : s[i] \in {LF, CR}}
  IN  IF breaks = {} THEN (IF s = <<>> THEN <<>> ELSE <<s>>)
      ELSE LET i    == CHOOSE x \in breaks : \A y \in breaks : x <= y
               next == IF s[i] = CR /\ i < Len(s) /\ s[i + 1] = LF
                       THEN i + 2 ELSE i + 1
           IN  <<SubSeq(s, 1, i - 1)>> \o SplitLines(SubSeq(s, next, Len(s)))

\* sep.join(parts)
RECURSIVE Join(_, _)
Join(sep, parts) ==
  IF parts = <<>> THEN <<>>
  ELSE IF Len(parts) = 1 THEN parts[1]
  ELSE parts[1] \o sep \o Join(sep, Tail(parts))

\* line.split(":")[-1]: what follows the last colon, the whole line when
\* it has none
RECURSIVE AfterLastColon(_)
AfterLastColon(line) ==
  IF \E i \in 1..Len(line) : line[i] = ":"
  THEN AfterLastColon(Tail(line))
  ELSE line

\* str.replace(old, ""): every occurrence of old, left to right
RECURSIVE RemoveAll(_, _)
RemoveAll(s, old) ==
  IF s = <<>> THEN <<>>
  ELSE IF StartsWith(s, old) THEN RemoveAll(SubSeq(s, Len(old) + 1, Len(s)), old)
  ELSE <<Head(s)>> \o RemoveAll(Tail(s), old)

DigitChar(d) == <<"0", "1", "2", "3", "4", "5", "6", "7", "8", "9">>[d + 1]

\* str(n) for an integer n
RECURSIVE StrNat(_)
StrNat(n) ==
  IF n < 10 THEN <<DigitChar(n)>> ELSE StrNat(n \div 10) \o <<DigitChar(n % 10)>>

Str(n) == IF n < 0 THEN <<"-">> \o StrNat(0 - n) ELSE StrNat(n)

\* str.zfill(width)
RECURSIVE ZFill(_, _)
ZFill(s, width) == IF Len(s) >= width THEN s ELSE ZFill(<<"0">> \o s, width)

\* a // b as Python computes it (floor division); b # 0
PyFloorDiv(a, b) ==
  IF b > 0
  THEN (IF a >= 0 THEN a \div b ELSE 0 - ((b - 1 - a) \div b))
  ELSE (IF a <= 0 THEN (0 - a) \div (0 - b) ELSE 0 - ((a - b - 1) \div (0 - b)))

\* the index a slice bound stands for in a sequence of length n
SliceIndex(i, n) ==
  IF i < 0 THEN (IF i + n < 0 THEN 0 ELSE i + n) ELSE (IF i > n THEN n ELSE i)

\* seq[lo:hi]
PySlice(seq, lo, hi) ==
  SubSeq(seq, SliceIndex(lo, Len(seq)) + 1, SliceIndex(hi, Len(seq)))

\* code-point order of the characters the model uses
CharOrder ==
  <<"\t", LF, CR, " ", "+", "-", ".", "0", "1", "2", "3", "4", "5", "6", "7",
    "8", "9", ":", ";", "=", "A", "B", "C", "D", "E", "F", "G", "I", "L", "N",
    "O", "P", "R", "S", "T", "V", "X", "Y", "_", "a", "c", "e", "f", "n", "o",
    "v", "x", BOM>>

Ord(c) == CHOOSE i \in 1..Len(CharOrder) : CharOrder[i] = c

\* a < b for Python strings
RECURSIVE StrLess(_, _)
StrLess(a, b) ==
  IF b = <<>> THEN FALSE
  ELSE IF a = <<>> THEN TRUE
  ELSE IF Head(a) = Head(b) THEN StrLess(Tail(a), Tail(b))
  ELSE Ord(Head(a)) < Ord(Head(b))

\* sorted(set of strings)
RECURSIVE Sorted(_)
Sorted(S) ==
  IF S = {} THEN <<>>
  ELSE LET m == CHOOSE x \in S : \A y \in S \ {x} : StrLess(x, y)
       IN  <<m>> \o Sorted(S \ {m})

(***************************************************************************)
(* The phonenumbers library, which normalize_number calls, on a numbering  *)
(* plan scaled down to the calling code 1 (the North American plan, whose  *)
(* national numbers have one possible length and may not begin with 0 or   *)
(* 1).  parse raises on text that is not a viable number or has no         *)
(* assigned calling code; is_possible_number looks at the length alone.    *)
(***************************************************************************)
Punctuation == {"-", " "}

AssignedCodes == {<<"1">>}

PossibleLengths == {2}

ValidLeading == Digits \ {"0", "1"}

ParseError == [ok |-> FALSE, cc |-> <<>>, nn |-> <<>>]

RECURSIVE StripPlus(_)
StripPlus(s) ==
  IF s # <<>> /\ Head(s) = "+" THEN StripPlus(Tail(s)) ELSE s

RECURSIVE StripUnwantedEnd(_)
StripUnwantedEnd(s) ==
  IF s # <<>> /\ ~IsDigit(s[Len(s)])
  THEN StripUnwantedEnd(SubSeq(s, 1, Len(s) - 1)) ELSE s

\* phonenumbers.parse(number, None)
phonenumbers_parse(number) ==
  LET body == StripPlus(StripUnwantedEnd(number))
      ds   == DigitsOnly(body)
  IN  IF number = <<>> \/ Head(number) # "+" THEN ParseError
      ELSE IF \E i \in 1..Len(body) : body[i] \notin Digits \cup Punctuation
      THEN ParseError
      ELSE IF Len(ds) < 3 THEN ParseError
      ELSE IF <<Head(ds)>> \notin AssignedCodes THEN ParseError
      ELSE [ok |-> TRUE, cc |-> <<Head(ds)>>, nn |-> Tail(ds)]

\* phonenumbers.is_possible_number(num)
is_possible_number(num) == Len(num.nn) \in PossibleLengths

\* phonenumbers.is_valid_number(num): the stricter check, which the
\* program does not call
is_valid_number(num) ==
  /\ Len(num.nn) \in PossibleLengths
  /\ Head(num.nn) \in ValidLeading

\* phonenumbers.format_number(num, PhoneNumberFormat.E164)
format_E164(num) == <<"+">> \o num.cc \o num.nn

(***************************************************************************)
(* normalize_number.  The result is [exc, value]: exc is TRUE when an      *)
(* exception leaves the function (the bare except lets none out), value is *)
(* the returned string or NoneVal.                                         *)
(***************************************************************************)
Returned(v) == [exc |-> FALSE, value |-> v]

\* the number normalize_number parses: the token as it is when it begins
\* with "+", else "+" and the token's digits
ParsedOf(raw0) ==
  LET raw    == Strip(raw0)
      digits == DigitsOnly(raw)
  IN  IF StartsWith(raw, <<"+">>)
      THEN phonenumbers_parse(raw)
      ELSE phonenumbers_parse(<<"+">> \o digits)

AcceptValidOnly(num) == is_valid_number(num)

\* the check that guards the return of the formatted number
AcceptParsed(num) == is_possible_number(num)

\* the bare except around the parse
OnParseException == Returned(NoneVal)

normalize_number(raw0) ==
  LET raw == Strip(raw0)
      num == ParsedOf(raw0)
  IN  IF raw = <<>> THEN Returned(NoneVal)
      ELSE IF ~num.ok THEN OnParseException
      ELSE IF AcceptParsed(num) THEN Returned(format_E164(num))
      ELSE Returned(NoneVal)

(***************************************************************************)
(* The vCard decoders.                                                     *)
(***************************************************************************)
S_TEL == <<"T", "E", "L">>

S_FN == <<"F", "N", ":">>

S_END == <<"E", "N", "D", ":", "V", "C", "A", "R", "D">>

S_BEGIN == <<"B", "E", "G", "I", "N", ":", "V", "C", "A", "R", "D">>

S_VERSION == <<"V", "E", "R", "S", "I", "O", "N", ":", "3", ".", "0">>

S_TELCELL == <<"T", "E", "L", ";", "T", "Y", "P", "E", "=", "C", "E", "L", "L", ":">>

\* the test that makes extract_numbers_from_vcf take a line
IsTelLine(line) == StartsWith(line, S_TEL)

RECURSIVE NumbersOfLines(_)
NumbersOfLines(lines) ==
  IF lines = <<>> THEN <<>>
  ELSE (IF IsTelLine(Head(lines))
        THEN <<Strip(AfterLastColon(Head(lines)))>> ELSE <<>>)
       \o NumbersOfLines(Tail(lines))

extract_numbers_from_vcf(content) == NumbersOfLines(SplitLines(content))

\* a value is true in a condition: neither None nor the empty str
Truthy(v) == v # NoneVal /\ v # <<>>

\* the END:VCARD branch: it is taken only when current_name is true
ContactEnd(st) ==
  IF Truthy(st.current_name)
  THEN [contacts |-> Append(st.contacts,
                            [name |-> st.current_name, numbers |-> st.numbers]),
        current_name |-> NoneVal, numbers |-> <<>>]
  ELSE st

KeepNumbersAtName(st, line) ==
  [st EXCEPT !.current_name = Strip(RemoveAll(line, S_FN))]

\* the FN: branch
ContactName(st, line) ==
  [st EXCEPT !.current_name = Strip(RemoveAll(line, S_FN)), !.numbers = <<>>]

\* one turn of the loop of extract_contacts_from_vcf
ContactStep(st, line0) ==
  LET line == Strip(line0)
  IN  IF StartsWith(line, S_FN) THEN ContactName(st, line)
      ELSE IF StartsWith(line, S_TEL)
      THEN [st EXCEPT !.numbers = Append(@, Strip(AfterLastColon(line)))]
      ELSE IF line = S_END THEN ContactEnd(st)
      ELSE st

RECURSIVE ContactLoop(_, _)
ContactLoop(st, lines) ==
  IF lines = <<>> THEN st
  ELSE ContactLoop(ContactStep(st, Head(lines)), Tail(lines))

extract_contacts_from_vcf(content) ==
  ContactLoop([contacts |-> <<>>, current_name |-> NoneVal, numbers |-> <<>>],
              SplitLines(content)).contacts

(***************************************************************************)
(* A dict is the sequence of its [key, val] items in insertion order.      *)
(***************************************************************************)
DictHas(d, k) == \E i \in 1..Len(d) : d[i].key = k

DictGet(d, k) == d[CHOOSE i \in 1..Len(d) : d[i].key = k].val

\* d[k] = v
DictPut(d, k, v) ==
  IF DictHas(d, k)
  THEN [i \in 1..Len(d) |-> IF d[i].key = k THEN [key |-> k, val |-> v] ELSE d[i]]
  ELSE Append(d, [key |-> k, val |-> v])

(***************************************************************************)
(* generate_vcf.  The result is [exc, vcf_files]: exc names the exception  *)
(* that leaves the function, "none" when it returns.                       *)
(***************************************************************************)
S_VCF == <<".", "v", "c", "f">>

\* the six lines of the record of the i-th number of a chunk
CardLines(num, i, pad, name_prefix, set_no) ==
  LET idx  == ZFill(Str(i), pad)
      name == name_prefix \o <<" ">> \o Str(set_no) \o <<" ">> \o idx
  IN  << S_BEGIN,
         S_VERSION,
         <<"N", ":">> \o idx \o <<";">> \o name_prefix \o <<" ">> \o Str(set_no)
           \o <<";", ";", ";">>,
         S_FN \o name,
         S_TELCELL \o num,
         S_END >>

RECURSIVE ChunkLines(_, _, _, _, _)
ChunkLines(chunk, i, pad, name_prefix, set_no) ==
  IF i > Len(chunk) THEN <<>>
  ELSE CardLines(chunk[i], i, pad, name_prefix, set_no)
       \o ChunkLines(chunk, i + 1, pad, name_prefix, set_no)

ShortTotalSets(n, batch_size) == PyFloorDiv(n, batch_size)

\* total_sets
TotalSets(n, batch_size) == PyFloorDiv(n + batch_size - 1, batch_size)

\* chunk
Chunk(numbers, s, batch_size) ==
  PySlice(numbers, s * batch_size, (s + 1) * batch_size)

BareFileName(file_prefix, set_no) == file_prefix \o <<" ">> \o Str(set_no)

\* the key of a set in vcf_files
FileName(file_prefix, set_no) ==
  file_prefix \o <<" ">> \o Str(set_no) \o S_VCF

RECURSIVE SetLoop(_, _, _, _, _, _, _, _)
SetLoop(vcf_files, s, total_sets, numbers, name_prefix, file_prefix, set_start, batch_size) ==
  IF s >= total_sets THEN vcf_files
  ELSE LET chunk  == Chunk(numbers, s, batch_size)
           set_no == set_start + s
           pad    == Len(Str(Len(chunk)))
           lines  == ChunkLines(chunk, 1, pad, name_prefix, set_no)
       IN  SetLoop(DictPut(vcf_files, FileName(file_prefix, set_no),
                           Join(<<LF>>, lines)),
                   s + 1, total_sets, numbers, name_prefix, file_prefix,
                   set_start, batch_size)

generate_vcf(numbers, name_prefix, file_prefix, set_start, batch_size) ==
  IF batch_size = 0
  THEN [exc |-> "ZeroDivisionError", vcf_files |-> <<>>]
  ELSE [exc |-> "none",
        vcf_files |-> SetLoop(<<>>, 0, TotalSets(Len(numbers), batch_size),
                              numbers, name_prefix, file_prefix, set_start,
                              batch_size)]

(***************************************************************************)
(* merge_vcf_files.                                                        *)
(***************************************************************************)
SeqToSet(seq) == {seq[i] : i \in 1..Len(seq)}

OverwriteByName(merged, name, nums) == DictPut(merged, name, nums)

\* merged.setdefault(name, set()).update(nums)
UpdateByName(merged, name, nums) ==
  IF DictHas(merged, name)
  THEN DictPut(merged, name, DictGet(merged, name) \cup nums)
  ELSE DictPut(merged, name, nums)

\* merged[f"{name}_{len(merged)+1}"] = nums
PutByPosition(merged, name, nums) ==
  DictPut(merged, name \o <<"_">> \o Str(Len(merged) + 1), nums)

RECURSIVE FoldContacts(_, _, _)
FoldContacts(merged, contacts, merge_by_name) ==
  IF contacts = <<>> THEN merged
  ELSE LET name == Head(contacts).name
           nums == SeqToSet(Head(contacts).numbers)
       IN  FoldContacts(IF merge_by_name
                        THEN UpdateByName(merged, name, nums)
                        ELSE PutByPosition(merged, name, nums),
                        Tail(contacts), merge_by_name)

\* the first loop: merged, before the numbers are made unique
RECURSIVE FoldContents(_, _, _)
FoldContents(merged, vcf_contents, merge_by_name) ==
  IF vcf_contents = <<>> THEN merged
  ELSE FoldContents(FoldContacts(merged,
                                 extract_contacts_from_vcf(Head(vcf_contents)),
                                 merge_by_name),
                    Tail(vcf_contents), merge_by_name)

KeepAll(merged, i, seen) == merged

\* the merge_by_number loop: each set keeps the numbers not seen in an
\* earlier item
RECURSIVE DedupeNumbers(_, _, _)
DedupeNumbers(merged, i, seen) ==
  IF i > Len(merged) THEN merged
  ELSE DedupeNumbers([merged EXCEPT ![i].val = @ \ seen], i + 1,
                     seen \cup merged[i].val)

\* for n in sorted(numbers)
EmitOrder(numbers) == Sorted(numbers)

EmitEmptyToo(numbers) == FALSE

\* if not numbers: continue
SkipRecord(numbers) == numbers = {}

RECURSIVE TelLines(_)
TelLines(nums) ==
  IF nums = <<>> THEN <<>> ELSE <<S_TELCELL \o Head(nums)>> \o TelLines(Tail(nums))

RECURSIVE MergedLines(_)
MergedLines(merged) ==
  IF merged = <<>> THEN <<>>
  ELSE LET name    == Head(merged).key
           numbers == Head(merged).val
       IN  (IF SkipRecord(numbers) THEN <<>>
            ELSE << S_BEGIN, S_VERSION,
                    <<"N", ":">> \o name \o <<";", ";", ";", ";">>,
                    S_FN \o name >>
                 \o TelLines(EmitOrder(numbers))
                 \o <<S_END>>)
           \o MergedLines(Tail(merged))

merge_vcf_files(vcf_contents, merge_by_name, merge_by_number) ==
  LET folded == FoldContents(<<>>, vcf_contents, merge_by_name)
      merged == IF merge_by_number THEN DedupeNumbers(folded, 1, {}) ELSE folded
  IN  Join(<<LF>>, MergedLines(merged))

(***************************************************************************)
(* clean_raw_numbers and the collection loop of the two "-> VCF" tabs.     *)
(***************************************************************************)
S_nan == <<"n", "a", "n">>

S_none == <<"n", "o", "n", "e">>

RECURSIVE clean_raw_numbers(_)
clean_raw_numbers(lines) ==
  IF lines = <<>> THEN <<>>
  ELSE LET l == Head(lines)
       IN  (IF l # <<>> /\ LowerStr(Strip(l)) \notin {S_nan, S_none}
            THEN <<Strip(RemoveChar(l, BOM))>> ELSE <<>>)
           \o clean_raw_numbers(Tail(lines))

InSeq(x, seq) == \E i \in 1..Len(seq) : seq[i] = x

AppendAlways(ordered, n) == IF Truthy(n) THEN Append(ordered, n) ELSE ordered

\* if n and n not in seen: seen.add(n); ordered.append(n)
\* (seen holds exactly the members of ordered)
CollectOne(ordered, n) ==
  IF Truthy(n) /\ ~InSeq(n, ordered) THEN Append(ordered, n) ELSE ordered

RECURSIVE CollectLoop(_, _)
CollectLoop(ordered, tokens) ==
  IF tokens = <<>> THEN ordered
  ELSE CollectLoop(CollectOne(ordered, normalize_number(Head(tokens)).value),
                   Tail(tokens))

RECURSIVE ReadLines(_)
ReadLines(files) ==
  IF files = <<>> THEN <<>>
  ELSE SplitLines(Head(files)) \o ReadLines(Tail(files))

\* raw, as the TXT -> VCF handler gathers it: the lines of the files in
\* upload order, then the pasted lines
RawOf(txt_files, manual) ==
  ReadLines(txt_files) \o (IF Strip(manual) # <<>> THEN SplitLines(manual) ELSE <<>>)

(***************************************************************************)
(* State: the tab whose handler ran in this run of the script, the input   *)
(* it was given and what it computed.  Streamlit runs the script from the  *)
(* top on every interaction and the script keeps nothing between two runs. *)
(***************************************************************************)
Init ==
  /\ tab = "start"
  /\ inp = <<>>
  /\ res = <<>>

\* the next interaction runs the script again from the top
Rerun ==
  /\ tab # "start"
  /\ tab' = "start"
  /\ inp' = <<>>
  /\ res' = <<>>

TokChars == {"+", "1", "2", "-", " "}

\* normalize_number applied to one raw token
Normalize ==
  /\ tab = "start"
  /\ \E raw \in SeqsUpTo(TokChars, MaxTokLen) :
       /\ tab' = "normalize"
       /\ inp' = [raw |-> raw]
       /\ res' = normalize_number(raw)

NextNormalize == Normalize \/ Rerun

SpecNormalize == Init /\ [][NextNormalize]_vars

(***************************************************************************)
(* The tabs TXT -> VCF and CSV -> VCF.                                     *)
(***************************************************************************)
T_plus121 == <<"+", "1", "2", "1">>

T_bom1_21 == <<BOM, "1", "-", "2", "1">>

T_122 == <<"1", "2", "2">>

T_12 == <<"1", "2">>

SampleTokens == {T_plus121, T_bom1_21, T_122, T_12, S_nan}

P_C == <<"C">>

P_F == <<"F">>

\* Convert TXT -> VCF: two uploaded files and the pasted text.
\* (A value bound by \E over a one-element set is computed once.)
ConvertTxt ==
  /\ tab = "start"
  /\ \E toks \in SeqsUpTo(SampleTokens, MaxTokens) :
     \E k1 \in 0..Len(toks) : \E k2 \in k1..Len(toks) :
     \E txt_files \in {<< Join(<<LF>>, SubSeq(toks, 1, k1)),
                          Join(<<LF>>, SubSeq(toks, k1 + 1, k2)) >>} :
     \E manual \in {Join(<<LF>>, SubSeq(toks, k2 + 1, Len(toks)))} :
     \E raw \in {RawOf(txt_files, manual)} :
     \E ordered \in {CollectLoop(<<>>, clean_raw_numbers(raw))} :
     \E batch \in 1..MaxBatch, set_start \in 1..MaxSetStart :
     \E vcf \in {IF ordered # <<>>
                 THEN generate_vcf(ordered, P_C, P_F, set_start, batch)
                 ELSE [exc |-> "none", vcf_files |-> <<>>]} :
       /\ tab' = "txt_to_vcf"
       /\ inp' = [txt_files |-> txt_files, manual |-> manual, batch |-> batch,
                  set_start |-> set_start, name_prefix |-> P_C,
                  file_prefix |-> P_F]
       /\ res' = [raw |-> raw, ordered |-> ordered, called |-> ordered # <<>>,
                  exc |-> vcf.exc, vcf |-> vcf.vcf_files]

\* Convert CSV -> VCF: the cells of the phone column, as str
ConvertCsv ==
  /\ tab = "start"
  /\ \E cells \in SeqsUpTo(SampleTokens, MaxTokens) :
     \E ordered \in {CollectLoop(<<>>, cells)} :
     \E batch \in 1..MaxBatch, set_start \in 1..MaxSetStart :
     \E vcf \in {generate_vcf(ordered, P_C, P_F, set_start, batch)} :
       /\ tab' = "csv_to_vcf"
       /\ inp' = [cells |-> cells, batch |-> batch, set_start |-> set_start,
                  name_prefix |-> P_C, file_prefix |-> P_F]
       /\ res' = [raw |-> cells, ordered |-> ordered, called |-> TRUE,
                  exc |-> vcf.exc, vcf |-> vcf.vcf_files]

NextCollect == ConvertTxt \/ ConvertCsv \/ Rerun

SpecCollect == Init /\ [][NextCollect]_vars

(***************************************************************************)
(* The tabs VCF -> TXT, Split Files (VCF) and Analyze & Clean.             *)
(***************************************************************************)
RECURSIVE Concat(_)
Concat(parts) == IF parts = <<>> THEN <<>> ELSE Head(parts) \o Concat(Tail(parts))

Segments == {S_TEL, <<":">>, <<"1">>, <<" ">>, <<LF>>, <<CR>>}

\* VCF -> TXT: one uploaded file, any text made of the segments
VcfToTxt ==
  /\ tab = "start"
  /\ \E segs \in SeqsUpTo(Segments, MaxSegs) :
     \E content \in {Concat(segs)} :
     \E nums \in {extract_numbers_from_vcf(content)} :
       /\ tab' = "vcf_to_txt"
       /\ inp' = [vcf_files |-> <<content>>]
       /\ res' = [nums |-> nums, txt |-> Join(<<LF>>, nums)]

L_TEL1 == S_TEL \o <<":", "1">>

L_TELCELL2 == S_TELCELL \o <<"2">>

L_FNA == S_FN \o <<"A">>

SplitLineSet == {L_TEL1, L_TELCELL2, L_FNA}

\* Split & Rebuild VCF
SplitVcf ==
  /\ tab = "start"
  /\ \E lines \in SeqsUpTo(SplitLineSet, MaxSplitLines) :
     \E content \in {Join(<<LF>>, lines)} :
     \E nums \in {extract_numbers_from_vcf(content)} :
     \E batch \in 1..MaxBatch, set_start \in 1..MaxSetStart :
     \E vcf \in {generate_vcf(nums, P_C, P_F, set_start, batch)} :
       /\ tab' = "split_vcf"
       /\ inp' = [content |-> content, batch |-> batch, set_start |-> set_start,
                  name_prefix |-> P_C, file_prefix |-> P_F]
       /\ res' = [nums |-> nums, exc |-> vcf.exc, vcf |-> vcf.vcf_files]

RECURSIVE NormAll(_)
NormAll(nums) ==
  IF nums = <<>> THEN <<>>
  ELSE (IF Truthy(normalize_number(Head(nums)).value)
        THEN <<normalize_number(Head(nums)).value>> ELSE <<>>)
       \o NormAll(Tail(nums))

\* the loop that builds final
RECURSIVE FinalLoop(_, _, _)
FinalLoop(final, norm, remove_dup) ==
  IF norm = <<>> THEN final
  ELSE FinalLoop(IF ~remove_dup \/ ~InSeq(Head(norm), final)
                 THEN Append(final, Head(norm)) ELSE final,
                 Tail(norm), remove_dup)

L_TELp121 == S_TEL \o <<":">> \o T_plus121

L_TEL1_21 == S_TELCELL \o <<"1", "-", "2", "1">>

L_TEL12 == S_TEL \o <<":">> \o T_12

CleanLineSet == {L_TELp121, L_TEL1_21, L_TEL12, L_FNA, S_END, T_122}

\* Analyze & Clean, Process & Download pressed.  For a VCF without "merge
\* same name" the batch size handed to generate_vcf is len(final).
AnalyzeClean ==
  /\ tab = "start"
  /\ \E lines \in SeqsUpTo(CleanLineSet, MaxCleanLines) :
     \E is_vcf \in BOOLEAN, remove_dup \in BOOLEAN, merge_same_name \in BOOLEAN :
     \E start \in 1..MaxSetStart :
     \E content \in {Join(<<LF>>, lines)} :
     \E nums \in {IF is_vcf THEN extract_numbers_from_vcf(content)
                  ELSE clean_raw_numbers(SplitLines(content))} :
     \E final \in {FinalLoop(<<>>, NormAll(nums), remove_dup)} :
     \E vcf \in {IF is_vcf /\ ~merge_same_name
                 THEN generate_vcf(final, P_C, P_F, start, Len(final))
                 ELSE [exc |-> "none", vcf_files |-> <<>>]} :
       /\ tab' = "analyze"
       /\ inp' = [content |-> content, is_vcf |-> is_vcf,
                  remove_dup |-> remove_dup,
                  merge_same_name |-> merge_same_name, start |-> start]
       /\ res' = [nums |-> nums, final |-> final,
                  called |-> is_vcf /\ ~merge_same_name,
                  batch_size |-> Len(final),
                  exc |-> vcf.exc,
                  vcf |-> vcf.vcf_files,
                  out |-> IF vcf.exc # "none" THEN NoneVal
                          ELSE IF is_vcf /\ merge_same_name
                          THEN merge_vcf_files(<<content>>, TRUE, TRUE)
                          ELSE IF is_vcf THEN vcf.vcf_files[1].val
                          ELSE Join(<<LF>>, final)]

NextVcf == VcfToTxt \/ SplitVcf \/ AnalyzeClean \/ Rerun

SpecVcf == Init /\ [][NextVcf]_vars

(***************************************************************************)
(* extract_contacts_from_vcf on its own, and the tab VCF Merge.            *)
(***************************************************************************)
L_sp_TELCELL2 == <<" ">> \o S_TELCELL \o <<"2">>

ContactLineSet == {S_BEGIN, L_FNA, S_FN, L_TEL1, L_sp_TELCELL2, S_END}

\* extract_contacts_from_vcf applied to one text
ExtractContacts ==
  /\ tab = "start"
  /\ \E lines \in SeqsUpTo(ContactLineSet, MaxContactLines) :
     \E content \in {Join(<<LF>>, lines)} :
       /\ tab' = "contacts"
       /\ inp' = [content |-> content]
       /\ res' = [contacts |-> extract_contacts_from_vcf(content)]

\* the record of one contact: FN, its TEL lines, END:VCARD
Block(name, tels) ==
  <<S_FN \o name>> \o [i \in 1..Len(tels) |-> S_TEL \o <<":">> \o tels[i]]
    \o <<S_END>>

BlockNames == {<<"A">>, <<"B">>}

BlockTels == {<<>>, << <<"1">> >>, << <<"2">>, <<"1">> >>}

Blocks == {Block(n, t) : n \in BlockNames, t \in BlockTels}

TextOf(blks) == Join(<<LF>>, Concat(blks))

\* Merge VCF: two uploaded files
MergeVcf ==
  /\ tab = "start"
  /\ \E blks \in SeqsUpTo(Blocks, MaxBlocks) :
     \E k \in 0..Len(blks) :
     \E merge_name \in BOOLEAN, merge_number \in BOOLEAN :
     \E contents \in {<< TextOf(SubSeq(blks, 1, k)),
                         TextOf(SubSeq(blks, k + 1, Len(blks))) >>} :
       /\ tab' = "merge"
       /\ inp' = [contents |-> contents, merge_name |-> merge_name,
                  merge_number |-> merge_number]
       /\ res' = [merged |-> merge_vcf_files(contents, merge_name, merge_number)]

\* Merge VCF: the same file uploaded twice
MergeSameTwice ==
  /\ tab = "start"
  /\ \E blks \in SeqsUpTo(Blocks, MaxBlocks) :
     \E merge_name \in BOOLEAN, merge_number \in BOOLEAN :
     \E contents \in {<<TextOf(blks), TextOf(blks)>>} :
       /\ tab' = "merge"
       /\ inp' = [contents |-> contents, merge_name |-> merge_name,
                  merge_number |-> merge_number]
       /\ res' = [merged |-> merge_vcf_files(contents, merge_name, merge_number)]

NextMerge == ExtractContacts \/ MergeVcf \/ MergeSameTwice \/ Rerun

SpecMerge == Init /\ [][NextMerge]_vars

Next ==
  \/ Normalize \/ ConvertTxt \/ ConvertCsv \/ VcfToTxt \/ SplitVcf
  \/ AnalyzeClean \/ ExtractContacts \/ MergeVcf \/ MergeSameTwice \/ Rerun

Spec == Init /\ [][Next]_vars

(***************************************************************************)
(* C9                                                                      *)
(***************************************************************************)
StrippedLines(content) ==
  LET ls == SplitLines(content) IN [i \in 1..Len(ls) |-> Strip(ls[i])]

IsFnLine(l) == StartsWith(l, S_FN)

IsTelOnly(l) == ~IsFnLine(l) /\ StartsWith(l, S_TEL)

MaxOf(S) == IF S = {} THEN 0 ELSE CHOOSE x \in S : \A y \in S : y <= x

\* the END:VCARD line before line e, 0 when there is none
PrevEnd(L, e) == MaxOf({p \in 1..(e - 1) : L[p] = S_END})

\* the last FN line between the previous END:VCARD and line e, else 0
LastFn(L, e) == MaxOf({f \in (PrevEnd(L, e) + 1)..(e - 1) : IsFnLine(L[f])})

NameOfFn(l) == Strip(RemoveAll(l, S_FN))

Closes(L, e) ==
  /\ L[e] = S_END
  /\ LastFn(L, e) # 0
  /\ NameOfFn(L[LastFn(L, e)]) # <<>>

RECURSIVE TelValuesBetween(_, _, _)
TelValuesBetween(L, f, e) ==
  IF f >= e THEN <<>>
  ELSE (IF IsTelOnly(L[f]) THEN <<Strip(AfterLastColon(L[f]))>> ELSE <<>>)
       \o TelValuesBetween(L, f + 1, e)

RECURSIVE ContactsClosedFrom(_, _)
ContactsClosedFrom(L, e) ==
  IF e > Len(L) THEN <<>>
  ELSE (IF Closes(L, e)
        THEN <<[name    |-> NameOfFn(L[LastFn(L, e)]),
                numbers |-> TelValuesBetween(L, LastFn(L, e), e)]>>
        ELSE <<>>)
       \o ContactsClosedFrom(L, e + 1)

\* C9: extract_contacts_from_vcf emits one Contact for each END:VCARD line
\* that has an FN line with a name since the END:VCARD line before it, and
\* none for any other line; the Contact's numbers are exactly the TEL values
\* between that record's last FN line and its END:VCARD, so the TEL values
\* of a record without FN reach no Contact and the later records are still
\* decoded.
C9_UnnamedRecordDropped ==
  tab = "contacts" =>
    res.contacts = ContactsClosedFrom(StrippedLines(inp.content), 1)

\* TEL, END:VCARD without FN, then a named record with another TEL: only
\* the named record is emitted, with its own number
C9_Witness ==
  /\ tab = "contacts"
  /\ SplitLines(inp.content) = <<L_TEL1, S_END, L_FNA, L_sp_TELCELL2, S_END>>
  /\ res.contacts = <<[name |-> <<"A">>, numbers |-> << <<"2">> >>]>>

(***************************************************************************)
(* C4                                                                      *)
(***************************************************************************)
\* the merged contacts before deduplication, in iteration order
FoldedOf(i) == FoldContents(<<>>, i.contents, i.merge_name)

RecordsOf(text) == extract_contacts_from_vcf(text)

FirstHolder(folded, n) ==
  CHOOSE i \in 1..Len(folded) :
    /\ n \in folded[i].val
    /\ \A j \in 1..(i - 1) : n \notin folded[j].val

\* C4: with merge_by_number, each telephone number of the merged contacts
\* occurs in exactly one record of the output and once in it, the record of
\* the first merged contact (in iteration order) that holds it; a merged
\* contact that keeps no number has no record.
C4_GlobalUniqueNumbers ==
  (tab = "merge" /\ inp.merge_number) =>
    LET folded == FoldedOf(inp)
        recs   == RecordsOf(res.merged)
        Occ    == UNION {{<<i, p>> : p \in 1..Len(recs[i].numbers)} :
                           i \in 1..Len(recs)}
    IN  /\ \A x, y \in Occ :
             x # y => recs[x[1]].numbers[x[2]] # recs[y[1]].numbers[y[2]]
        /\ \A x \in Occ :
             LET n == recs[x[1]].numbers[x[2]]
             IN  /\ \E j \in 1..Len(folded) : n \in folded[j].val
                 /\ folded[FirstHolder(folded, n)].key = recs[x[1]].name
        /\ \A j \in 1..Len(folded) : \A n \in folded[j].val :
             \E x \in Occ : recs[x[1]].numbers[x[2]] = n
        /\ \A i \in 1..Len(recs) : recs[i].numbers # <<>>

\* two merged contacts with different names share their numbers: the
\* second keeps none and has no record
C4_Witness ==
  /\ tab = "merge"
  /\ inp.merge_number
  /\ Len(FoldedOf(inp)) = 2
  /\ FoldedOf(inp)[2].val # {}
  /\ FoldedOf(inp)[2].val \subseteq FoldedOf(inp)[1].val
  /\ Len(RecordsOf(res.merged)) = 1

(***************************************************************************)
(* C5                                                                      *)
(***************************************************************************)
\* every contact decoded from the inputs, in input order
RECURSIVE DecodedOf(_)
DecodedOf(contents) ==
  IF contents = <<>> THEN <<>>
  ELSE extract_contacts_from_vcf(Head(contents)) \o DecodedOf(Tail(contents))

NumbersNamed(decoded, name) ==
  UNION {SeqToSet(decoded[i].numbers) :
           i \in {j \in 1..Len(decoded) : decoded[j].name = name}}

\* C5: with merge_by_name the output has at most one record per display
\* name; without merge_by_number the record of a name lists exactly the
\* union of the numbers of the decoded contacts of that name, each once, in
\* ascending order of their strings, and a name has a record exactly when
\* that union is not empty.
C5_MergeByNameUnion ==
  (tab = "merge" /\ inp.merge_name) =>
    LET decoded == DecodedOf(inp.contents)
        recs    == RecordsOf(res.merged)
    IN  /\ \A i, j \in 1..Len(recs) : i # j => recs[i].name # recs[j].name
        /\ ~inp.merge_number =>
             /\ \A i \in 1..Len(recs) :
                  /\ SeqToSet(recs[i].numbers) = NumbersNamed(decoded, recs[i].name)
                  /\ \A p, q \in 1..Len(recs[i].numbers) :
                       p < q => StrLess(recs[i].numbers[p], recs[i].numbers[q])
             /\ \A d \in 1..Len(decoded) :
                  NumbersNamed(decoded, decoded[d].name) # {} =>
                    \E i \in 1..Len(recs) : recs[i].name = decoded[d].name

\* "A" with {1} in the first file and "A" with 2, 1 in the second: one
\* record "A" with 1, 2
C5_Witness ==
  /\ tab = "merge"
  /\ inp.merge_name /\ ~inp.merge_number
  /\ inp.contents = << TextOf(<<Block(<<"A">>, << <<"1">> >>)>>),
                       TextOf(<<Block(<<"A">>, << <<"2">>, <<"1">> >>)>>) >>
  /\ RecordsOf(res.merged)
       = <<[name |-> <<"A">>, numbers |-> << <<"1">>, <<"2">> >>]>>

(***************************************************************************)
(* C6                                                                      *)
(***************************************************************************)
ContactSet(text) ==
  {[name |-> c.name, numbers |-> SeqToSet(c.numbers)] :
     c \in SeqToSet(RecordsOf(text))}

SameFileTwice ==
  /\ tab = "merge"
  /\ inp.merge_number
  /\ inp.contents[1] = inp.contents[2]

\* C6: with merge_by_number, merging a text with itself gives the same set
\* of contacts (names, each with its numbers) as merging the text alone,
\* for either value of merge_by_name.
C6_MergeIdempotent ==
  SameFileTwice =>
    ContactSet(res.merged)
      = ContactSet(merge_vcf_files(<<inp.contents[1]>>, inp.merge_name, TRUE))

\* a text with two contacts merged with itself, not by name
C6_Witness ==
  /\ SameFileTwice
  /\ ~inp.merge_name
  /\ Len(RecordsOf(inp.contents[1])) >= 2
  /\ Cardinality(ContactSet(res.merged)) >= 2

(***************************************************************************)
(* C1                                                                      *)
(***************************************************************************)
BatchItems(files, i) == extract_numbers_from_vcf(files[i].val)

RECURSIVE AllBatchItems(_, _)
AllBatchItems(files, i) ==
  IF i > Len(files) THEN <<>>
  ELSE BatchItems(files, i) \o AllBatchItems(files, i + 1)

\* C1: for every item sequence, batch size >= 1 and start set number >= 1,
\* generate_vcf returns ceil(len/batch) batches; each but the last holds
\* exactly batch items and the last between 1 and batch; the batches put
\* together in order are the input; the i-th batch carries the set number
\* set_start + i - 1.
C1_BatchPartition ==
  tab = "split_vcf" =>
    LET items == res.nums
        b     == inp.batch
        files == res.vcf
        k     == Len(files)
    IN  /\ res.exc = "none"
        /\ k * b >= Len(items)
        /\ (k - 1) * b < Len(items) \/ (k = 0 /\ items = <<>>)
        /\ \A i \in 1..(k - 1) : Len(BatchItems(files, i)) = b
        /\ k > 0 => Len(BatchItems(files, k)) \in 1..b
        /\ AllBatchItems(files, 1) = items
        /\ \A i \in 1..k :
             files[i].key = inp.file_prefix \o <<" ">>
                              \o Str(inp.set_start + i - 1) \o S_VCF

\* five items in batches of two from set number 2: sizes 2, 2, 1
C1_Witness ==
  /\ tab = "split_vcf"
  /\ Len(res.nums) = 5
  /\ inp.batch = 2
  /\ inp.set_start = 2
  /\ Len(res.vcf) = 3
  /\ Len(BatchItems(res.vcf, 3)) = 1

(***************************************************************************)
(* C7                                                                      *)
(***************************************************************************)
\* C7: a call of generate_vcf with a batch size below 1 ends in a reported
\* error with no batch produced: it neither raises an unhandled exception
\* nor returns a result.
C7_NonPositiveBatchRejected ==
  (tab = "analyze" /\ res.called /\ res.batch_size <= 0) =>
    /\ res.exc = "rejected"
    /\ res.vcf = <<>>

(***************************************************************************)
(* C10                                                                     *)
(***************************************************************************)
\* the line's trimmed content begins with TEL
TelLineStripped(line) == StartsWith(Strip(line), S_TEL)

RECURSIVE TrimmedTelValues(_)
TrimmedTelValues(lines) ==
  IF lines = <<>> THEN <<>>
  ELSE (IF TelLineStripped(Head(lines))
        THEN <<Strip(AfterLastColon(Head(lines)))>> ELSE <<>>)
       \o TrimmedTelValues(Tail(lines))

\* C10: extract_numbers_from_vcf returns, in line order, one value for
\* every line whose trimmed content begins with TEL (a line break being
\* "\n", "\r\n" or "\r") and for no other line: what follows the line's
\* last colon, trimmed.
C10_TrimmedTelLines ==
  tab = "vcf_to_txt" =>
    res.nums = TrimmedTelValues(SplitLines(inp.vcf_files[1]))

(***************************************************************************)
(* C2                                                                      *)
(***************************************************************************)
CanonOf(token) == normalize_number(token).value

FirstIndex(c, tokens) ==
  CHOOSE k \in 1..Len(tokens) :
    /\ CanonOf(tokens[k]) = c
    /\ \A j \in 1..(k - 1) : CanonOf(tokens[j]) # c

\* C2: the collected sequence repeats no canonical number, holds every
\* canonical number a raw token normalises to and nothing else, and lists
\* them in the order of their first appearance in the raw tokens (files in
\* upload order, then the pasted text); a token that normalises to None is
\* passed over and the tokens after it are still collected.
C2_CollectOrderStable ==
  tab \in {"txt_to_vcf", "csv_to_vcf"} =>
    LET raw == res.raw
        out == res.ordered
    IN  /\ \A i, j \in 1..Len(out) : i # j => out[i] # out[j]
        /\ \A k \in 1..Len(raw) :
             CanonOf(raw[k]) # NoneVal => InSeq(CanonOf(raw[k]), out)
        /\ \A i \in 1..Len(out) :
             out[i] # NoneVal /\ \E k \in 1..Len(raw) : CanonOf(raw[k]) = out[i]
        /\ \A i, j \in 1..Len(out) :
             i < j => FirstIndex(out[i], raw) < FirstIndex(out[j], raw)

\* a None token came first, then two tokens of two files with the same
\* canonical number, then another number: the later duplicate was dropped
C2_Witness ==
  /\ tab = "txt_to_vcf"
  /\ Len(res.raw) = 3
  /\ CanonOf(res.raw[1]) = NoneVal
  /\ res.raw[2] # res.raw[3]
  /\ CanonOf(res.raw[2]) = CanonOf(res.raw[3])
  /\ inp.txt_files[1] # <<>> /\ inp.txt_files[2] # <<>> /\ inp.manual # <<>>
  /\ res.ordered = <<T_plus121>>

(***************************************************************************)
(* C3                                                                      *)
(***************************************************************************)
OneNumberCase ==
  /\ tab \in {"txt_to_vcf", "csv_to_vcf"}
  /\ Len(res.ordered) = 1
  /\ inp.batch = 1
  /\ inp.set_start = 1
  /\ inp.name_prefix = P_C
  /\ inp.file_prefix = P_F

C8_OnlyValidAccepted ==
  tab = "normalize" =>
    /\ ~res.exc
    /\ res.value # NoneVal =>
         ParsedOf(inp.raw).ok /\ is_valid_number(ParsedOf(inp.raw))

\* C8 amended: normalize_number never lets an exception out; it returns a
\* canonical number exactly for the non-empty tokens whose parse succeeds
\* with a possible number (valid or not), and that number is "+" followed
\* by the token's digits; every other token gives None.
C8_PossibleAccepted ==
  tab = "normalize" =>
    LET raw == Strip(inp.raw)
        num == ParsedOf(inp.raw)
    IN  /\ ~res.exc
        /\ (res.value # NoneVal) <=>
             (raw # <<>> /\ num.ok /\ is_possible_number(num))
        /\ res.value # NoneVal =>
             /\ res.value = <<"+">> \o DigitsOnly(inp.raw)
             /\ Len(res.value) - 2 \in PossibleLengths

\* a token that parses to a possible but not valid number was normalised
C8_Witness ==
  /\ tab = "normalize"
  /\ ParsedOf(inp.raw).ok
  /\ is_possible_number(ParsedOf(inp.raw))
  /\ ~is_valid_number(ParsedOf(inp.raw))
  /\ res.value = <<"+", "1", "1", "2">>

====
